---- MODULE Spec2Model ----
(***************************************************************************)
(* Model of the broadcast registry of the GOTTH system monitor            *)
(* (package main): Server.subscribers guarded by Server.subscribersMu,    *)
(* one websocketHandler goroutine per connection, and the publisher       *)
(* goroutine started by startDataPublisher.                               *)
(*                                                                         *)
(* Every step that touches state shared between goroutines (the mutex,   *)
(* the map, a channel) is one action, so that all interleavings of the    *)
(* goroutines are explored.  The connection is owned by its handler, so   *)
(* a write to it belongs to the action of the channel operation before    *)
(* it.  A []byte is a sequence; nil is <<>>.  The payload rendered at     *)
(* tick t is <<t>>.                                                       *)
(*                                                                         *)
(* A panic raised in a websocketHandler is recovered by the websocket     *)
(* package (gofiber/websocket v2.2.1 wraps the handler in its             *)
(* RecoverHandler), so it ends that handler only: pc = "panicked".        *)
(***************************************************************************)
EXTENDS Integers, Sequences, FiniteSets

\* ---- bounds of the model ----
MaxTicks == 3    \* ticks of the publisher's ticker
MaxBuffer == 2   \* largest subscriberMessageBuffer the model is run with

\* The connections of the model: two websocketHandler goroutines.  The handlers
\* are interchangeable, and no property below relates more than two of them.
Subs == {1, 2}

\* the steps of one publisher cycle that can fail (lines 148-223)
CycleSteps ==
  {"system", "disk", "cpu", "render_system", "render_disk", "render_cpu", "render_status"}

VARIABLES
  subscriberMessageBuffer, \* Server.subscriberMessageBuffer
  mu,                      \* Server.subscribersMu: TRUE when locked
  subscribers,             \* Server.subscribers (the keys of the map)
  msgs,                    \* Subscriber.msgs: the buffered contents of the channel
  closed,                  \* Subscriber.msgs has been closed
  alive,                   \* Subscriber.conn: the peer still accepts writes
  sent,                    \* Subscriber.conn: text frames written so far
  pc,                      \* position of each websocketHandler goroutine
  pubPc,                   \* position of the publisher goroutine
  ticks,                   \* ticks of the publisher's ticker so far
  pubMsg,                  \* publishMsg's argument msg
  todo,                    \* publishMsg: keys the range loop has not visited yet
  published,               \* history: arguments of the publishMsg calls, in order
  cycleOk,                 \* history: for each tick so far, whether every step of its cycle succeeded
  regAt,                   \* history: Len(published) when the subscriber was inserted
  closeRec                 \* history: what held when the channel was closed

vars ==
  << subscriberMessageBuffer, mu, subscribers, msgs, closed, alive, sent, pc,
     pubPc, ticks, pubMsg, todo, published, cycleOk, regAt, closeRec >>

NoClose == [by |-> "none", pubs |-> 0, sent |-> <<>>, queue |-> <<>>]

\* NewServer, before any connection and before the first tick.  NewServer sets
\* subscriberMessageBuffer to 10; the code is the same for every buffer size, and
\* the model is run with each size from 1 to MaxBuffer.
Init ==
  /\ subscriberMessageBuffer \in 1..MaxBuffer
  /\ mu = FALSE
  /\ subscribers = {}
  /\ msgs = [s \in Subs |-> <<>>]
  /\ closed = [s \in Subs |-> FALSE]
  /\ alive = [s \in Subs |-> TRUE]
  /\ sent = [s \in Subs |-> <<>>]
  /\ pc = [s \in Subs |-> "idle"]
  /\ pubPc = "wait"
  /\ ticks = 0
  /\ pubMsg = <<>>
  /\ todo = {}
  /\ published = <<>>
  /\ cycleOk = <<>>
  /\ regAt = [s \in Subs |-> 0]
  /\ closeRec = [s \in Subs |-> NoClose]

\* ---- channel and connection primitives ----

\* close(ch) as recorded in the history: who closed, after how many publishMsg
\* calls, and what was written and what was still buffered at that moment.
CloseRecord(s, who) ==
  [by |-> who, pubs |-> Len(published), sent |-> sent[s], queue |-> msgs[s]]

\* c.WriteMessage(websocket.TextMessage, msg) succeeded: the frame is on the wire.
\* A run of empty frames is kept as one, which keeps the log finite.
WriteFrame(log, m) ==
  IF m = <<>> /\ Len(log) > 0 /\ log[Len(log)] = <<>> THEN log ELSE Append(log, m)

\* ---- websocketHandler, one goroutine per connection ----

\* lines 80-85 and addSubscriber, line 111: the subscriber and its channel are
\* created, then s.subscribersMu.Lock()
AddLock(s) ==
  /\ pc[s] = "idle"
  /\ mu = FALSE
  /\ mu' = TRUE
  /\ pc' = [pc EXCEPT ![s] = "add_locked"]
  /\ UNCHANGED << subscriberMessageBuffer, subscribers, msgs, closed, alive, sent,
                  pubPc, ticks, pubMsg, todo, published, cycleOk, regAt, closeRec >>

\* seeded fault: the insert is lost
AddInsertNothing(s) ==
  /\ pc[s] = "add_locked"
  /\ mu' = FALSE
  /\ regAt' = [regAt EXCEPT ![s] = Len(published)]
  /\ pc' = [pc EXCEPT ![s] = "add_len"]
  /\ UNCHANGED << subscriberMessageBuffer, subscribers, msgs, closed, alive, sent,
                  pubPc, ticks, pubMsg, todo, published, cycleOk, closeRec >>

\* seeded fault: the Unlock() is left out and the lock is carried into the loop
AddInsertKeepsLock(s) ==
  /\ pc[s] = "add_locked"
  /\ subscribers' = subscribers \cup {s}
  /\ regAt' = [regAt EXCEPT ![s] = Len(published)]
  /\ pc' = [pc EXCEPT ![s] = "add_len"]
  /\ UNCHANGED << subscriberMessageBuffer, mu, msgs, closed, alive, sent,
                  pubPc, ticks, pubMsg, todo, published, cycleOk, closeRec >>

\* addSubscriber, lines 112-113: insert, Unlock()
AddInsert(s) ==
  /\ pc[s] = "add_locked"
  /\ subscribers' = subscribers \cup {s}
  /\ mu' = FALSE
  /\ regAt' = [regAt EXCEPT ![s] = Len(published)]
  /\ pc' = [pc EXCEPT ![s] = "add_len"]
  /\ UNCHANGED << subscriberMessageBuffer, msgs, closed, alive, sent,
                  pubPc, ticks, pubMsg, todo, published, cycleOk, closeRec >>

\* addSubscriber, line 114: len(s.subscribers) is read without the lock and printed
AddLen(s) ==
  /\ pc[s] = "add_len"
  /\ pc' = [pc EXCEPT ![s] = "loop"]
  /\ UNCHANGED << subscriberMessageBuffer, mu, subscribers, msgs, closed, alive, sent,
                  pubPc, ticks, pubMsg, todo, published, cycleOk, regAt, closeRec >>

\* seeded fault: a failed write is ignored and the loop goes round again
AfterWriteRetry(s) == "loop"

\* c.WriteMessage: fails when the peer is gone; the error returns from the
\* handler, which runs the deferred removeSubscriber (line 86)
AfterWrite(s) == IF alive[s] THEN "loop" ELSE "rm"

\* seeded fault: the default branch only sleeps, no ping is written
LoopNoProbe(s) ==
  /\ pc[s] = "loop"
  /\ IF msgs[s] # <<>>
       THEN /\ msgs' = [msgs EXCEPT ![s] = Tail(msgs[s])]
            /\ sent' = [sent EXCEPT ![s] =
                          IF alive[s] THEN WriteFrame(sent[s], Head(msgs[s]))
                          ELSE sent[s]]
            /\ pc' = [pc EXCEPT ![s] = AfterWrite(s)]
       ELSE IF closed[s]
         THEN /\ sent' = [sent EXCEPT ![s] =
                            IF alive[s] THEN WriteFrame(sent[s], <<>>) ELSE sent[s]]
              /\ pc' = [pc EXCEPT ![s] = AfterWrite(s)]
              /\ UNCHANGED msgs
         ELSE UNCHANGED << msgs, sent, pc >>
  /\ UNCHANGED << subscriberMessageBuffer, mu, subscribers, closed, alive,
                  pubPc, ticks, pubMsg, todo, published, cycleOk, regAt, closeRec >>

\* seeded fault: the newest buffered value is received first
LoopLifo(s) ==
  /\ pc[s] = "loop"
  /\ IF msgs[s] # <<>>
       THEN /\ msgs' = [msgs EXCEPT ![s] = SubSeq(msgs[s], 1, Len(msgs[s]) - 1)]
            /\ sent' = [sent EXCEPT ![s] =
                          IF alive[s] THEN WriteFrame(sent[s], msgs[s][Len(msgs[s])])
                          ELSE sent[s]]
       ELSE IF closed[s]
         THEN /\ sent' = [sent EXCEPT ![s] =
                            IF alive[s] THEN WriteFrame(sent[s], <<>>) ELSE sent[s]]
              /\ UNCHANGED msgs
         ELSE UNCHANGED << msgs, sent >>
  /\ pc' = [pc EXCEPT ![s] = AfterWrite(s)]
  /\ UNCHANGED << subscriberMessageBuffer, mu, subscribers, closed, alive,
                  pubPc, ticks, pubMsg, todo, published, cycleOk, regAt, closeRec >>

\* seeded fault: the ping comes first; a waiting payload is left in the
\* channel while the channel is open
LoopProbeFirst(s) ==
  /\ pc[s] = "loop"
  /\ IF closed[s] /\ msgs[s] # <<>>
       THEN /\ msgs' = [msgs EXCEPT ![s] = Tail(msgs[s])]
            /\ sent' = [sent EXCEPT ![s] =
                          IF alive[s] THEN WriteFrame(sent[s], Head(msgs[s]))
                          ELSE sent[s]]
       ELSE IF closed[s]
         THEN /\ sent' = [sent EXCEPT ![s] =
                            IF alive[s] THEN WriteFrame(sent[s], <<>>) ELSE sent[s]]
              /\ UNCHANGED msgs
         ELSE UNCHANGED << msgs, sent >>
  /\ pc' = [pc EXCEPT ![s] = AfterWrite(s)]
  /\ UNCHANGED << subscriberMessageBuffer, mu, subscribers, closed, alive,
                  pubPc, ticks, pubMsg, todo, published, cycleOk, regAt, closeRec >>

\* lines 91-107: one iteration of the for/select loop.
\*   case msg := <-subscriber.msgs: a buffered value is received first, and a
\*     closed and empty channel yields nil at once; msg is written as a text frame;
\*   default (channel open and empty): a ping is written, then Sleep(100ms).
Loop(s) ==
  /\ pc[s] = "loop"
  /\ IF msgs[s] # <<>>
       THEN /\ msgs' = [msgs EXCEPT ![s] = Tail(msgs[s])]
            /\ sent' = [sent EXCEPT ![s] =
                          IF alive[s] THEN WriteFrame(sent[s], Head(msgs[s]))
                          ELSE sent[s]]
       ELSE IF closed[s]
         THEN /\ sent' = [sent EXCEPT ![s] =
                            IF alive[s] THEN WriteFrame(sent[s], <<>>) ELSE sent[s]]
              /\ UNCHANGED msgs
         ELSE UNCHANGED << msgs, sent >>
  /\ pc' = [pc EXCEPT ![s] = AfterWrite(s)]
  /\ UNCHANGED << subscriberMessageBuffer, mu, subscribers, closed, alive,
                  pubPc, ticks, pubMsg, todo, published, cycleOk, regAt, closeRec >>

\* removeSubscriber (deferred, line 86), line 118: s.subscribersMu.Lock()
RmLock(s) ==
  /\ pc[s] = "rm"
  /\ mu = FALSE
  /\ mu' = TRUE
  /\ pc' = [pc EXCEPT ![s] = "rm_locked"]
  /\ UNCHANGED << subscriberMessageBuffer, subscribers, msgs, closed, alive, sent,
                  pubPc, ticks, pubMsg, todo, published, cycleOk, regAt, closeRec >>

\* seeded fault: the delete clears the whole map
RmDeleteAll(s) ==
  /\ pc[s] = "rm_locked"
  /\ subscribers' = {}
  /\ mu' = FALSE
  /\ pc' = [pc EXCEPT ![s] = "rm_len"]
  /\ UNCHANGED << subscriberMessageBuffer, msgs, closed, alive, sent,
                  pubPc, ticks, pubMsg, todo, published, cycleOk, regAt, closeRec >>

\* removeSubscriber, lines 119-120: delete, Unlock()
RmDelete(s) ==
  /\ pc[s] = "rm_locked"
  /\ subscribers' = subscribers \ {s}
  /\ mu' = FALSE
  /\ pc' = [pc EXCEPT ![s] = "rm_len"]
  /\ UNCHANGED << subscriberMessageBuffer, msgs, closed, alive, sent,
                  pubPc, ticks, pubMsg, todo, published, cycleOk, regAt, closeRec >>

\* removeSubscriber, line 121: len(s.subscribers) is read without the lock and printed
RmLen(s) ==
  /\ pc[s] = "rm_len"
  /\ pc' = [pc EXCEPT ![s] = "rm_close"]
  /\ UNCHANGED << subscriberMessageBuffer, mu, subscribers, msgs, closed, alive, sent,
                  pubPc, ticks, pubMsg, todo, published, cycleOk, regAt, closeRec >>

\* removeSubscriber, line 122: close(subscriber.msgs); closing a closed channel panics
RmClose(s) ==
  /\ pc[s] = "rm_close"
  /\ IF closed[s]
       THEN /\ pc' = [pc EXCEPT ![s] = "panicked"]
            /\ UNCHANGED << closed, closeRec >>
       ELSE /\ closed' = [closed EXCEPT ![s] = TRUE]
            /\ closeRec' = [closeRec EXCEPT ![s] = CloseRecord(s, "remove")]
            /\ pc' = [pc EXCEPT ![s] = "done"]
  /\ UNCHANGED << subscriberMessageBuffer, mu, subscribers, msgs, alive, sent,
                  pubPc, ticks, pubMsg, todo, published, cycleOk, regAt >>

\* the remote peer goes away while the loop runs: every later write on the
\* connection fails
PeerDies(s) ==
  /\ pc[s] = "loop"
  /\ alive[s]
  /\ alive' = [alive EXCEPT ![s] = FALSE]
  /\ UNCHANGED << subscriberMessageBuffer, mu, subscribers, msgs, closed, sent, pc,
                  pubPc, ticks, pubMsg, todo, published, cycleOk, regAt, closeRec >>

\* ---- the publisher goroutine ----

\* seeded fault: a cycle whose last render step fails publishes what it has
TickPartialPublish ==
  /\ pubPc = "wait"
  /\ ticks < MaxTicks
  /\ ticks' = ticks + 1
  /\ \E failed \in CycleSteps \cup {"none"} :
       /\ cycleOk' = Append(cycleOk, failed = "none")
       /\ IF failed \in {"none", "render_status"}
            THEN /\ pubMsg' = << ticks + 1 >>
                 /\ pubPc' = "lock"
            ELSE UNCHANGED << pubMsg, pubPc >>
  /\ UNCHANGED << subscriberMessageBuffer, mu, subscribers, msgs, closed, alive, sent,
                  pc, todo, published, regAt, closeRec >>

\* lines 146-236: one tick; a failing collection or render step skips the cycle
\* (continue), otherwise msg is built and publishMsg is called
Tick ==
  /\ pubPc = "wait"
  /\ ticks < MaxTicks
  /\ ticks' = ticks + 1
  /\ \E failed \in CycleSteps \cup {"none"} :
       /\ cycleOk' = Append(cycleOk, failed = "none")
       /\ IF failed = "none"
            THEN /\ pubMsg' = << ticks + 1 >>
                 /\ pubPc' = "lock"
            ELSE UNCHANGED << pubMsg, pubPc >>
  /\ UNCHANGED << subscriberMessageBuffer, mu, subscribers, msgs, closed, alive, sent,
                  pc, todo, published, regAt, closeRec >>

\* seeded fault: the range loop misses one of the keys
PublishLockSkips ==
  /\ pubPc = "lock"
  /\ mu = FALSE
  /\ mu' = TRUE
  /\ todo' = IF subscribers = {} THEN {}
             ELSE subscribers \ {CHOOSE s \in subscribers : TRUE}
  /\ published' = Append(published, pubMsg)
  /\ pubPc' = "range"
  /\ UNCHANGED << subscriberMessageBuffer, subscribers, msgs, closed, alive, sent,
                  pc, ticks, pubMsg, cycleOk, regAt, closeRec >>

\* publishMsg, lines 126-129: Lock(); the range loop starts over the current keys
PublishLock ==
  /\ pubPc = "lock"
  /\ mu = FALSE
  /\ mu' = TRUE
  /\ todo' = subscribers
  /\ published' = Append(published, pubMsg)
  /\ pubPc' = "range"
  /\ UNCHANGED << subscriberMessageBuffer, subscribers, msgs, closed, alive, sent,
                  pc, ticks, pubMsg, cycleOk, regAt, closeRec >>

\* seeded fault: a blocking send, without the default branch
PublishVisitBlocking(s) ==
  /\ pubPc = "range"
  /\ s \in todo
  /\ ~closed[s]
  /\ Len(msgs[s]) < subscriberMessageBuffer
  /\ msgs' = [msgs EXCEPT ![s] = Append(msgs[s], pubMsg)]
  /\ todo' = todo \ {s}
  /\ UNCHANGED << subscriberMessageBuffer, mu, subscribers, closed, alive, sent, pc,
                  pubPc, ticks, pubMsg, published, cycleOk, regAt, closeRec >>

\* seeded fault: the channel takes one value more than its capacity
PublishVisitOffByOne(s) ==
  /\ pubPc = "range"
  /\ s \in todo
  /\ IF closed[s]
       THEN /\ pubPc' = "panicked"
            /\ UNCHANGED << msgs, subscribers, closed, closeRec >>
       ELSE IF Len(msgs[s]) <= subscriberMessageBuffer
         THEN /\ msgs' = [msgs EXCEPT ![s] = Append(msgs[s], pubMsg)]
              /\ UNCHANGED << subscribers, closed, closeRec, pubPc >>
         ELSE /\ subscribers' = subscribers \ {s}
              /\ closed' = [closed EXCEPT ![s] = TRUE]
              /\ closeRec' = [closeRec EXCEPT ![s] = CloseRecord(s, "evict")]
              /\ UNCHANGED << msgs, pubPc >>
  /\ todo' = todo \ {s}
  /\ UNCHANGED << subscriberMessageBuffer, mu, alive, sent, pc,
                  ticks, pubMsg, published, cycleOk, regAt >>

\* seeded fault: eviction closes the channel and forgets the delete
PublishVisitKeepsKey(s) ==
  /\ pubPc = "range"
  /\ s \in todo
  /\ IF closed[s]
       THEN /\ pubPc' = "panicked"
            /\ UNCHANGED << msgs, subscribers, closed, closeRec >>
       ELSE IF Len(msgs[s]) < subscriberMessageBuffer
         THEN /\ msgs' = [msgs EXCEPT ![s] = Append(msgs[s], pubMsg)]
              /\ UNCHANGED << subscribers, closed, closeRec, pubPc >>
         ELSE /\ closed' = [closed EXCEPT ![s] = TRUE]
              /\ closeRec' = [closeRec EXCEPT ![s] = CloseRecord(s, "evict")]
              /\ UNCHANGED << msgs, subscribers, pubPc >>
  /\ todo' = todo \ {s}
  /\ UNCHANGED << subscriberMessageBuffer, mu, alive, sent, pc,
                  ticks, pubMsg, published, cycleOk, regAt >>

\* seeded fault: closing the channel throws its buffered values away
PublishVisitDiscards(s) ==
  /\ pubPc = "range"
  /\ s \in todo
  /\ IF closed[s]
       THEN /\ pubPc' = "panicked"
            /\ UNCHANGED << msgs, subscribers, closed, closeRec >>
       ELSE IF Len(msgs[s]) < subscriberMessageBuffer
         THEN /\ msgs' = [msgs EXCEPT ![s] = Append(msgs[s], pubMsg)]
              /\ UNCHANGED << subscribers, closed, closeRec, pubPc >>
         ELSE /\ subscribers' = subscribers \ {s}
              /\ closed' = [closed EXCEPT ![s] = TRUE]
              /\ closeRec' = [closeRec EXCEPT ![s] = CloseRecord(s, "evict")]
              /\ msgs' = [msgs EXCEPT ![s] = <<>>]
              /\ UNCHANGED pubPc
  /\ todo' = todo \ {s}
  /\ UNCHANGED << subscriberMessageBuffer, mu, alive, sent, pc,
                  ticks, pubMsg, published, cycleOk, regAt >>

\* publishMsg, lines 129-137: one iteration of the range loop, for key s.
\* select { case subscriber.msgs <- msg: default: delete; close }.
\* A send on a closed channel panics, in the publisher goroutine.
PublishVisit(s) ==
  /\ pubPc = "range"
  /\ s \in todo
  /\ IF closed[s]
       THEN /\ pubPc' = "panicked"
            /\ UNCHANGED << msgs, subscribers, closed, closeRec >>
       ELSE IF Len(msgs[s]) < subscriberMessageBuffer
         THEN /\ msgs' = [msgs EXCEPT ![s] = Append(msgs[s], pubMsg)]
              /\ UNCHANGED << subscribers, closed, closeRec, pubPc >>
         ELSE /\ subscribers' = subscribers \ {s}
              /\ closed' = [closed EXCEPT ![s] = TRUE]
              /\ closeRec' = [closeRec EXCEPT ![s] = CloseRecord(s, "evict")]
              /\ UNCHANGED << msgs, pubPc >>
  /\ todo' = todo \ {s}
  /\ UNCHANGED << subscriberMessageBuffer, mu, alive, sent, pc,
                  ticks, pubMsg, published, cycleOk, regAt >>

\* publishMsg, line 127 (deferred): the range loop is over, Unlock()
PublishUnlock ==
  /\ pubPc = "range"
  /\ todo = {}
  /\ mu' = FALSE
  /\ pubPc' = "wait"
  /\ UNCHANGED << subscriberMessageBuffer, subscribers, msgs, closed, alive, sent,
                  pc, ticks, pubMsg, todo, published, cycleOk, regAt, closeRec >>

\* ---- the system ----

HandlerStep(s) ==
  \/ AddLock(s)
  \/ AddInsert(s)
  \/ AddLen(s)
  \/ Loop(s)
  \/ RmLock(s)
  \/ RmDelete(s)
  \/ RmLen(s)
  \/ RmClose(s)

PublishStep == (\E s \in Subs : PublishVisit(s)) \/ PublishUnlock

Next ==
  \/ \E s \in Subs : HandlerStep(s)
  \/ \E s \in Subs : PeerDies(s)
  \/ Tick
  \/ PublishLock
  \/ PublishStep

Spec == Init /\ [][Next]_vars

\* ---- vocabulary of the properties ----

\* addSubscriber has inserted s (it may have been removed since)
Registered(s) == pc[s] \notin {"idle", "add_locked"}

\* the payloads publishMsg has offered to s since s was inserted: those of the
\* calls that took the lock after the insert, less the call in progress while
\* its range loop has not reached s
Offered(s) ==
  SubSeq(published, regAt[s] + 1,
         Len(published) - (IF pubPc = "range" /\ s \in todo THEN 1 ELSE 0))

\* the write loop of s runs (or is about to) and has not received anything yet
Undrained(s) == pc[s] \in {"add_len", "loop"} /\ sent[s] = <<>>

IsPrefix(a, b) == Len(a) <= Len(b) /\ SubSeq(b, 1, Len(a)) = a

NonEmpty(m) == m # <<>>

\* the payloads among the text frames written to the connection of s
Payloads(s) == SelectSeq(sent[s], NonEmpty)

\* ---- C1 ----
\* C1: removeSubscriber on a subscriber that was already removed (by an earlier
\* removeSubscriber or by eviction in publishMsg) is a no-op and raises no
\* error: no outbox is ever closed a second time, so no handler panics.
C1_UnregisterRemovedIsNoOp ==
  \A s \in Subs : pc[s] # "panicked"

\* ---- C2 ----
\* C2: once a subscriber has been removed from the map, no step enqueues into
\* its outbox; a closed outbox is never a key of the map, and publishMsg never
\* sends on a closed channel (its goroutine never panics).
C2_NoEnqueueAfterUnregister ==
  [][ /\ \A s \in Subs :
           /\ (Registered(s) /\ s \notin subscribers) => Len(msgs'[s]) <= Len(msgs[s])
           /\ closed'[s] => s \notin subscribers'
      /\ pubPc' # "panicked" ]_vars

\* Scenario C: s was registered and unregistered, a later publishMsg call has
\* completed, and the outbox of s is closed with nothing added.
C2_Witness ==
  \E s \in Subs :
    /\ closeRec[s].by = "remove"
    /\ closed[s]
    /\ Len(published) > closeRec[s].pubs
    /\ pubPc = "wait"
    /\ msgs[s] = closeRec[s].queue

\* ---- C3 ----
\* C3: while the write loop of a registered subscriber does not drain, the
\* first N = subscriberMessageBuffer publishMsg calls enqueue their payloads
\* and keep it a member, and call N+1 evicts it (not a member, outbox closed);
\* publishMsg evicts only a subscriber whose outbox is full.
C3_SaturationEviction ==
  \A s \in Subs :
    /\ Undrained(s) =>
         IF Len(Offered(s)) <= subscriberMessageBuffer
           THEN s \in subscribers /\ ~closed[s] /\ msgs[s] = Offered(s)
           ELSE /\ s \notin subscribers
                /\ closed[s]
                /\ closeRec[s].by = "evict"
                /\ closeRec[s].pubs = regAt[s] + subscriberMessageBuffer + 1
                /\ msgs[s] = SubSeq(Offered(s), 1, subscriberMessageBuffer)
    /\ closeRec[s].by = "evict" => Len(closeRec[s].queue) = subscriberMessageBuffer

\* Scenario B: capacity 2, no drain, three payloads published: evicted by the third.
C3_Witness ==
  \E s \in Subs :
    /\ subscriberMessageBuffer = MaxBuffer
    /\ Undrained(s)
    /\ Len(Offered(s)) = MaxBuffer + 1
    /\ closed[s]
    /\ s \notin subscribers

\* ---- C4 ----
\* C4: for a member whose loop is running (never evicted, no failed write), the
\* frames written to its connection followed by the payloads still queued are
\* exactly the payloads offered to it, in publish order: nothing lost,
\* duplicated or reordered.
C4_FifoDelivery ==
  \A s \in Subs :
    (s \in subscribers /\ pc[s] \in {"add_len", "loop"}) =>
      sent[s] \o msgs[s] = Offered(s)

\* Scenario A: every subscriber was registered before the first publish and has
\* received all the payloads, in order.
C4_Witness ==
  /\ Len(published) = MaxTicks
  /\ \A s \in Subs :
       s \in subscribers /\ regAt[s] = 0 /\ pc[s] = "loop" /\ sent[s] = published

\* ---- C5 ----
\* the publisher alone is scheduled fairly; the handlers may stop anywhere
SpecPub == Init /\ [][Next]_vars /\ WF_vars(PublishStep)

\* while publishMsg ranges over the map its next step is enabled: the visit of
\* any key not yet reached (which evicts when the outbox is full), or the
\* Unlock when none is left
PublishCanStep ==
  pubPc = "range" =>
    IF todo = {} THEN ENABLED PublishUnlock
    ELSE \A s \in todo : ENABLED PublishVisit(s)

\* C5: publishMsg never waits on a write loop or a transport: once it has taken
\* the lock its next step is always enabled, and it completes even if no
\* handler takes another step; a stalled subscriber with a full outbox is
\* evicted, not waited for.
C5_PublishNeverWaits ==
  /\ []PublishCanStep
  /\ (pubPc = "range") ~> (pubPc = "wait")

\* a publishMsg call has completed and has evicted a subscriber whose write
\* loop was stalled with a full outbox and has not taken a step since
C5_Witness ==
  \E s \in Subs :
    /\ pubPc = "wait"
    /\ closeRec[s].by = "evict"
    /\ closeRec[s].pubs = Len(published)
    /\ pc[s] = "loop"
    /\ msgs[s] = closeRec[s].queue
    /\ sent[s] = closeRec[s].sent

\* ---- C6 ----
\* a step of a's failure handling: the failed write, which leaves the loop, and
\* the steps of the deferred removeSubscriber
FailureHandling(a) ==
  /\ pc[a] \in {"loop", "rm", "rm_locked", "rm_len", "rm_close"}
  /\ pc'[a] \in {"rm", "rm_locked", "rm_len", "rm_close", "done", "panicked"}
  /\ pc'[a] # pc[a]

\* C6: no step of a's failure handling touches another subscriber b: b's
\* membership, outbox, open/closed state, connection and place in a running
\* publishMsg are unchanged; and every publishMsg call offers its payload to
\* all the members at the time it takes the lock.
C6_FailureIsolation ==
  [][ /\ \A a \in Subs : FailureHandling(a) =>
           \A b \in Subs \ {a} :
             /\ (b \in subscribers') = (b \in subscribers)
             /\ (b \in todo') = (b \in todo)
             /\ msgs'[b] = msgs[b]
             /\ closed'[b] = closed[b]
             /\ sent'[b] = sent[b]
             /\ pc'[b] = pc[b]
      /\ (pubPc = "lock" /\ pubPc' = "range") => todo' = subscribers ]_vars

\* a's write failed and a was unregistered while b was registered; b is still a
\* member and has since been written a payload published after a's removal
C6_Witness ==
  \E a \in Subs : \E b \in Subs \ {a} :
    /\ closeRec[a].by = "remove"
    /\ pc[a] = "done"
    /\ b \in subscribers
    /\ regAt[b] <= closeRec[a].pubs
    /\ Len(published) > closeRec[a].pubs
    /\ sent[b] # <<>>
    /\ sent[b][Len(sent[b])] = published[Len(published)]

\* ---- C7 ----
\* removeSubscriber has deleted s, or publishMsg has evicted it
Unregistered(s) ==
  \/ pc[s] \in {"rm_len", "rm_close", "done", "panicked"}
  \/ closeRec[s].by = "evict"

\* C7: the membership set is exactly the set of subscribers registered and not
\* yet unregistered (by removeSubscriber or by eviction), so its size is their
\* number: register adds exactly its subscriber, unregister removes exactly its own.
C7_MembershipAccuracy ==
  /\ subscribers = {s \in Subs : Registered(s) /\ ~Unregistered(s)}
  /\ Cardinality(subscribers) =
       Cardinality({s \in Subs : Registered(s)}) - Cardinality({s \in Subs : Unregistered(s)})

\* both subscribers were registered and one has been unregistered by
\* removeSubscriber: one member is left, the other one
C7_Witness ==
  \E a \in Subs : \E b \in Subs \ {a} :
    /\ pc[a] = "done"
    /\ closeRec[a].by = "remove"
    /\ pc[b] = "loop"
    /\ subscribers = {b}

\* ---- C8 ----
\* C8: (at the points where no registry operation on s is in progress) s is a
\* member iff its outbox is open and its write loop is running; no subscriber is
\* out of the set with its outbox open, and no outbox is closed while its write
\* loop keeps running; the set has as many members as there are open outboxes.
C8_MemberIffOpenAndDraining ==
  /\ \A s \in Subs : pc[s] \in {"loop", "done"} =>
       /\ (s \in subscribers) <=> (~closed[s] /\ pc[s] = "loop")
       /\ s \notin subscribers => closed[s]
       /\ closed[s] => pc[s] # "loop"
  /\ (\A s \in Subs : pc[s] \in {"idle", "loop", "done"}) =>
       Cardinality(subscribers) =
         Cardinality({s \in Subs : pc[s] # "idle" /\ ~closed[s]})

\* ---- C9 ----
\* C9: an iteration of the write loop that finds the outbox closed and empty
\* ends the loop, whether or not the transport still accepts writes: the loop
\* does not go round again on a closed, empty outbox.
C9_LoopStopsOnClosedEmptyOutbox ==
  [][ \A s \in Subs :
        (closed[s] /\ msgs[s] = <<>> /\ Loop(s)) => pc'[s] # "loop" ]_vars

RECURSIVE SuccessfulPayloads(_)
SuccessfulPayloads(n) ==
  IF n = 0 THEN <<>>
  ELSE IF cycleOk[n] THEN Append(SuccessfulPayloads(n - 1), << n >>)
       ELSE SuccessfulPayloads(n - 1)

\* the publishMsg calls made so far, the one waiting for the lock included
PublishCalls == IF pubPc = "lock" THEN Append(published, pubMsg) ELSE published

\* C11: publishMsg is called exactly once, with that cycle's payload, for every
\* tick whose collections and renders all succeed, and not at all for a tick in
\* which a step fails; a failed tick changes nothing but the tick count: the
\* publisher is waiting again and membership, outboxes and connections are as
\* they were.
C11_OnePublishPerSuccessfulCycle ==
  /\ [](Len(cycleOk) = ticks /\ PublishCalls = SuccessfulPayloads(ticks))
  /\ [][ (ticks' = ticks + 1 /\ ~cycleOk'[ticks']) =>
           /\ pubPc' = "wait"
           /\ UNCHANGED << mu, subscribers, msgs, closed, alive, sent, pc,
                           pubMsg, todo, published >> ]_vars

\* Scenario D: a tick failed, nothing was published for it, and the next tick
\* succeeded and its payload has been published
C11_Witness ==
  \E t \in 1..(MaxTicks - 1) :
    /\ ticks > t
    /\ ~cycleOk[t]
    /\ cycleOk[t + 1]
    /\ pubPc = "wait"
    /\ published # <<>>
    /\ published[Len(published)] = << t + 1 >>
    /\ \A i \in 1..Len(published) : published[i] # << t >>

\* ---- C12 ----
\* a write of s has failed: the loop has returned and the deferred
\* removeSubscriber is pending, running or over
Failed(s) == pc[s] \in {"rm", "rm_locked", "rm_len", "rm_close", "done", "panicked"}

\* the order of the steps of the one deferred removeSubscriber call
RemoveOrder ==
  { <<"rm", "rm_locked">>, <<"rm_locked", "rm_len">>, <<"rm_len", "rm_close">>,
    <<"rm_close", "done">>, <<"rm_close", "panicked">> }

\* C12: a failed write (payload or ping) is terminal: the iteration whose write
\* fails leaves the loop, which it leaves for no other reason; after that
\* nothing more is written to the connection, removeSubscriber runs once,
\* step after step, never to return to the loop; and when the handler has
\* ended the subscriber is not a member and its outbox is closed.
C12_WriteFailureIsTerminal ==
  /\ [](\A s \in Subs :
          pc[s] \in {"done", "panicked"} => (s \notin subscribers /\ closed[s]))
  /\ [][ \A s \in Subs :
           /\ (pc[s] = "loop" /\ ~alive[s] /\ Loop(s)) =>
                (pc'[s] = "rm" /\ sent'[s] = sent[s])
           /\ (pc[s] = "loop" /\ pc'[s] # "loop") => (pc'[s] = "rm" /\ ~alive[s])
           /\ Failed(s) =>
                /\ sent'[s] = sent[s]
                /\ pc'[s] = pc[s] \/ << pc[s], pc'[s] >> \in RemoveOrder ]_vars

\* a write failed after some payloads had been written: the handler has ended,
\* the subscriber was unregistered by its removeSubscriber, and the payload
\* that was still queued has not been written
C12_Witness ==
  \E s \in Subs :
    /\ pc[s] = "done"
    /\ closeRec[s].by = "remove"
    /\ sent[s] # <<>>
    /\ msgs[s] # <<>>
    /\ s \notin subscribers

\* ---- C13 ----
\* Fair scheduling of the goroutines: a handler that has been accepted keeps
\* running (its loop iterations and the steps of addSubscriber and
\* removeSubscriber, Lock() included once the mutex stays free), and a
\* publishMsg call that holds the lock runs on.  Nothing makes connections
\* arrive, peers die or ticks succeed.
HandlerRuns(s) ==
  \/ AddInsert(s)
  \/ AddLen(s)
  \/ Loop(s)
  \/ RmLock(s)
  \/ RmDelete(s)
  \/ RmLen(s)
  \/ RmClose(s)

SpecFair ==
  /\ Init
  /\ [][Next]_vars
  /\ WF_vars(PublishStep)
  /\ \A s \in Subs : WF_vars(HandlerRuns(s))

\* C13: a registered subscriber whose peer is dead is eventually out of the map
\* with its outbox closed, whether or not anything is published afterwards.
C13_DeadPeerReclaimed ==
  \A s \in Subs :
    (Registered(s) /\ ~alive[s]) ~> (s \notin subscribers /\ closed[s])

\* nothing was ever published, and a subscriber whose peer died has been
\* unregistered all the same: the failure was seen by the ping
C13_Witness ==
  \E s \in Subs :
    /\ published = <<>>
    /\ pubPc = "wait"
    /\ ~alive[s]
    /\ pc[s] = "done"
    /\ closed[s]
    /\ s \notin subscribers

\* ---- C14 ----
\* handler s is at a len(s.subscribers) (lines 114, 121): its own Unlock() is
\* behind it, the read of the map is its next step
SizeReadPending(s) == pc[s] \in {"add_len", "rm_len"}

\* a context other than s holds the lock and its next step writes the map: the
\* insert of line 112, the delete of line 119, or the delete of line 135 for a
\* key whose channel is full
MapWritePending(s) ==
  \/ \E t \in Subs \ {s} : pc[t] \in {"add_locked", "rm_locked"}
  \/ /\ pubPc = "range"
     /\ \E t \in todo : ~closed[t] /\ Len(msgs[t]) = subscriberMessageBuffer

\* C14: every access to the map, the reads of its size included, is made by the
\* holder of the lock, so that a read of the map by one context never stands
\* next to a write of the map by another context.
C14_AccessUnderLock ==
  \A s \in Subs : ~(SizeReadPending(s) /\ MapWritePending(s))

\* ---- C15 ----
\* the contexts between a Lock() and its Unlock(): a handler inside
\* addSubscriber (lines 111-113) or removeSubscriber (lines 118-120), written
\* as its subscriber, and publishMsg inside its range loop (lines 126-138),
\* written as 0
LockHolders ==
  {s \in Subs : pc[s] \in {"add_locked", "rm_locked"}}
    \cup (IF pubPc = "range" THEN {0} ELSE {})

\* the next step of whoever holds the lock: the insert or the delete followed
\* by Unlock(), a visit of the range loop, or the deferred Unlock()
LockHolderStep ==
  \/ PublishStep
  \/ \E s \in Subs : AddInsert(s) \/ RmDelete(s)

\* only the holder of the lock is scheduled fairly: the write loops, and with
\* them every transport write, may stall for ever
SpecLock == Init /\ [][Next]_vars /\ WF_vars(LockHolderStep)

\* C15: the lock is held exactly from a Lock() to the Unlock() of the same
\* context, and never by a handler in its write loop; the holder's next step is
\* always enabled whatever the peers and the outboxes are doing; and every
\* acquisition is followed by its release (the lock is free again and again),
\* even if no write loop ever takes another step.
C15_LockNeverHeldAcrossWrite ==
  /\ [](IF mu THEN Cardinality(LockHolders) = 1 ELSE LockHolders = {})
  /\ [](\A s \in Subs : pc[s] \in {"add_len", "loop", "rm"} => s \notin LockHolders)
  /\ [](mu => ENABLED LockHolderStep)
  /\ []<>~mu

\* the lock is held while a write loop is stalled on a dead peer with a full
\* outbox: by publishMsg, which is about to visit that subscriber, or by
\* another handler
C15_Witness ==
  \E s \in Subs :
    /\ pc[s] = "loop"
    /\ ~alive[s]
    /\ Len(msgs[s]) = subscriberMessageBuffer
    /\ \/ pubPc = "range" /\ s \in todo
       \/ \E t \in Subs \ {s} : pc[t] = "rm_locked"

\* ---- C16 ----
\* the step of a publishMsg call that treats s: s leaves the keys still to be
\* visited; with free space the payload goes to the tail of its outbox and s
\* stays a member, otherwise s is deleted and its channel closed, its outbox as
\* it was; no other subscriber is touched
Treats(s) ==
  /\ s \in todo
  /\ s \in subscribers
  /\ todo' = todo \ {s}
  /\ IF Len(msgs[s]) < subscriberMessageBuffer
       THEN /\ msgs'[s] = Append(msgs[s], pubMsg)
            /\ s \in subscribers'
            /\ ~closed'[s]
       ELSE /\ msgs'[s] = msgs[s]
            /\ s \notin subscribers'
            /\ closed'[s]
  /\ subscribers' \ {s} = subscribers \ {s}
  /\ \A t \in Subs \ {s} : msgs'[t] = msgs[t] /\ closed'[t] = closed[t]

\* C16: a publishMsg call treats each member at the time it takes the lock
\* exactly once: the keys to visit are the members at the Lock(), each step of
\* the call treats one of them (append at the tail with free space, eviction
\* otherwise), the call returns when none is left, and while it runs the
\* membership changes by its evictions only and nothing is added.
C16_PublishTreatsEachMemberOnce ==
  /\ [](pubPc = "range" => todo \subseteq subscribers /\ \A s \in todo : ~closed[s])
  /\ [](pubPc # "panicked")
  /\ [][ /\ (pubPc = "lock" /\ pubPc' = "range") =>
              todo' = subscribers /\ subscribers' = subscribers /\ msgs' = msgs
         /\ (pubPc = "range" /\ pubPc' = "range") =>
              IF todo' # todo
                THEN \E s \in Subs : Treats(s)
                ELSE /\ subscribers' = subscribers
                     /\ \A s \in Subs : Len(msgs'[s]) <= Len(msgs[s])
         /\ (pubPc = "range" /\ pubPc' = "wait") =>
              todo = {} /\ UNCHANGED << subscribers, msgs, closed >>
         /\ pubPc = "range" => pubPc' \in {"range", "wait"}
       ]_vars

\* a publishMsg call has returned after appending its payload to the outbox of
\* one member and evicting the other, whose outbox was full
C16_Witness ==
  \E s \in Subs, t \in Subs :
    /\ pubPc = "wait"
    /\ published # <<>>
    /\ closeRec[s].by = "evict"
    /\ closeRec[s].pubs = Len(published)
    /\ t \in subscribers
    /\ msgs[t] # <<>>
    /\ msgs[t][Len(msgs[t])] = published[Len(published)]
    /\ regAt[t] < Len(published)

\* ---- C17 ----
\* C17: every text frame written to the connection of s is a payload that a
\* publishMsg call put into the outbox of s, and no payload is written twice;
\* no frame is empty, whether the outbox is open or closed.
C17_OnlyPublishedPayloadsWritten ==
  \A s \in Subs :
    \A i \in 1..Len(sent[s]) :
      /\ sent[s][i] # <<>>
      /\ \E k \in 1..Len(Offered(s)) : Offered(s)[k] = sent[s][i]
      /\ \A j \in 1..Len(sent[s]) : j # i => sent[s][j] # sent[s][i]

\* ---- C18 ----
\* the frame the next iteration of the loop of s hands to WriteMessage, by the
\* select of lines 92-101: the received value as a text frame when the receive
\* can proceed (a buffered value, or nil from a closed and empty channel),
\* otherwise a ping without data
Frame(s) ==
  IF msgs[s] # <<>> THEN [kind |-> "text", data |-> Head(msgs[s])]
  ELSE IF closed[s] THEN [kind |-> "text", data |-> <<>>]
  ELSE [kind |-> "ping", data |-> <<>>]

\* C18: the loop pings only in an iteration that finds its outbox empty: with
\* a payload waiting the frame of the iteration is the payload at the head,
\* which is taken off the outbox and, the peer accepting it, written; an
\* iteration that pings takes nothing off the outbox and writes no text frame.
C18_ProbeOnlyWhenOutboxEmpty ==
  /\ [](\A s \in Subs :
          /\ Frame(s).kind = "ping" => msgs[s] = <<>>
          /\ msgs[s] # <<>> => Frame(s) = [kind |-> "text", data |-> Head(msgs[s])])
  /\ [][ \A s \in Subs : Loop(s) =>
           /\ msgs[s] # <<>> =>
                /\ msgs'[s] = Tail(msgs[s])
                /\ alive[s] => sent'[s] = WriteFrame(sent[s], Head(msgs[s]))
           /\ Frame(s).kind = "ping" => msgs'[s] = msgs[s] /\ sent'[s] = sent[s]
           /\ (Frame(s).kind = "text" /\ alive[s]) =>
                sent'[s] = WriteFrame(sent[s], Frame(s).data)
           /\ ~alive[s] => sent'[s] = sent[s] /\ pc'[s] = "rm" ]_vars

\* the loop of a member has written a payload, its outbox is empty again and
\* its next iteration pings
C18_Witness ==
  \E s \in Subs :
    /\ pc[s] = "loop"
    /\ s \in subscribers
    /\ alive[s]
    /\ Payloads(s) # <<>>
    /\ msgs[s] = <<>>
    /\ Frame(s).kind = "ping"

====
